---- MODULE Spec2Model ----
(***************************************************************************)
(* National Risk Index dashboard (src/nri_dashboard_app.py).               *)
(*                                                                         *)
(* The script is re-executed from top to bottom on every user interaction. *)
(* One action of the model is one interaction followed by the whole script *)
(* run it triggers; the variables hold the cached dataset, the widget      *)
(* values kept in the session, and the tables the last run produced.       *)
(***************************************************************************)
EXTENDS Integers, Sequences, FiniteSets, TLC

\* ------------------------------------------------------------------ bounds

\* Largest number of data rows in the fetched file.
MaxRows == 4

\* ------------------------------------------------------------- cell values

\* A dataframe cell: missing (NaN), a number, or a string.
NaN == [k |-> "nan", n |-> 0, s |-> ""]
Num(x) == [k |-> "num", n |-> x, s |-> ""]
Str(x) == [k |-> "str", n |-> 0, s |-> x]
IsNa(c) == c.k = "nan"

Range(f) == {f[i] : i \in DOMAIN f}

\* ------------------------------------------------------------- region_map

NortheastStates ==
    {"Connecticut", "Maine", "Massachusetts", "New Hampshire", "Rhode Island",
     "Vermont", "New Jersey", "New York", "Pennsylvania"}
MidwestStates ==
    {"Illinois", "Indiana", "Michigan", "Ohio", "Wisconsin", "Iowa", "Kansas",
     "Minnesota", "Missouri", "Nebraska", "North Dakota", "South Dakota"}
SouthStates ==
    {"Delaware", "Florida", "Georgia", "Maryland", "North Carolina",
     "South Carolina", "Virginia", "District of Columbia", "West Virginia",
     "Alabama", "Kentucky", "Mississippi", "Tennessee", "Arkansas",
     "Louisiana", "Oklahoma", "Texas"}
WestStates ==
    {"Arizona", "Colorado", "Idaho", "Montana", "Nevada", "New Mexico", "Utah",
     "Wyoming", "Alaska", "California", "Hawaii", "Oregon", "Washington"}

region_map ==
    [st \in NortheastStates \cup MidwestStates \cup SouthStates \cup WestStates |->
        IF st \in NortheastStates THEN "Northeast"
        ELSE IF st \in MidwestStates THEN "Midwest"
        ELSE IF st \in SouthStates THEN "South"
        ELSE "West"]

\* ----------------------------------------------------- the remote CSV file

Header ==
    <<"STATE", "COUNTY", "POPULATION", "RISK_SCORE", "SOVI_SCORE", "RESL_SCORE",
      "EAL_VALT">>

\* County lines the remote file may hold, as CSV text.  They cover a state
\* outside region_map, a population of exactly one million, a missing
\* population, a missing risk score and a county name shared by states.
Catalog ==
    << <<"Puerto Rico", "Ponce",  "130000",  "40", "70", "30", "5000">>,
       <<"California",  "Orange", "3000000", "99", "60", "50", "9000">>,
       <<"Texas",       "Orange", "1000000", "90", "80", "40", "7000">>,
       <<"New York",    "Kings",  "2700000", "97", "85", "45", "8000">>,
       <<"Florida",     "Orange", "",        "",   "75", "35", "6000">> >>

\* The numbers whose decimal numerals occur in the modelled files and tables.
Numerals ==
    {0, 1, 2, 30, 35, 40, 45, 50, 60, 70, 75, 80, 85, 90, 97, 99, 5000, 6000,
     7000, 8000, 9000, 130000, 1000000, 2700000, 3000000}

\* Texts pandas.read_csv reads as a missing value (its default na_values).
NaTokens == {"", "NA", "N/A", "NaN", "nan", "null", "NULL", "None", "#N/A", "<NA>"}

\* pandas.read_csv on one field.
ParseCell(t) ==
    IF t \in NaTokens THEN NaN
    ELSE IF \E x \in Numerals : ToString(x) = t
         THEN Num(CHOOSE x \in Numerals : ToString(x) = t)
         ELSE Str(t)

\* pandas.read_csv: a RangeIndex 0..n-1 and one parsed cell per column.
read_csv(file) ==
    [cols |-> file.header,
     rows |-> [i \in 1..Len(file.lines) |->
                 [idx |-> i - 1,
                  v |-> [c \in Range(file.header) |->
                           ParseCell(file.lines[i][CHOOSE j \in DOMAIN file.header :
                                                      file.header[j] = c])]]]]

\* The files the fetch may deliver: the header and up to MaxRows consecutive
\* catalog lines.
Files ==
    {[header |-> Header, lines |-> SubSeq(Catalog, p[1], p[2])] :
        p \in {q \in (1..Len(Catalog)) \X (0..Len(Catalog)) :
                  q[2] >= q[1] - 1 /\ q[2] - q[1] + 1 <= MaxRows}}

\* A file whose table has no STATE column.
NoStateFile ==
    [header |-> Tail(Header), lines |-> <<Tail(Catalog[2]), Tail(Catalog[3])>>]

EmptyDataFrame == [cols |-> <<>>, rows |-> <<>>]

\* DataFrame.empty: some axis has length zero.
IsEmpty(d) == Len(d.cols) = 0 \/ Len(d.rows) = 0

\* --------------------------------------------------------------- load_data

\* fillna-style variant of the region derivation: an unmapped state gets a
\* placeholder label instead of staying unset.
MapRegionPlaceholder(state) ==
    IF state.k = "str" /\ state.s \in DOMAIN region_map
    THEN Str(region_map[state.s]) ELSE Str("Other")

\* Series.map(region_map) on one STATE cell: a state that is no key of the
\* table, or a missing state, maps to NaN.
MapRegion(state) ==
    IF state.k = "str" /\ state.s \in DOMAIN region_map
    THEN Str(region_map[state.s]) ELSE NaN

\* df[name] = values: the column is added (or overwritten), values[i] going
\* to the i-th row.
WithColumn(d, name, values) ==
    [cols |-> IF name \in Range(d.cols) THEN d.cols ELSE Append(d.cols, name),
     rows |-> [i \in 1..Len(d.rows) |->
                 [idx |-> d.rows[i].idx,
                  v |-> [c \in DOMAIN d.rows[i].v \cup {name} |->
                           IF c = name THEN values[i] ELSE d.rows[i].v[c]]]]]

\* What the body of the try block raises for one fetch: a failure of the
\* request, of the archive or of the CSV parse, or the KeyError of
\* df['STATE'] on a table without that column.
Raised(in) ==
    IF in.fail # "none" THEN in.fail
    ELSE IF "STATE" \notin Range(in.file.header) THEN "KeyError"
    ELSE "none"

\* A handler that catches only the request's own exceptions.
CaughtRequestOnly(e) ==
    IF e = "fetch"
    THEN [df |-> EmptyDataFrame, error |-> e, escaped |-> FALSE]
    ELSE [df |-> EmptyDataFrame, error |-> "none", escaped |-> TRUE]

\* except Exception: st.error(...), return pd.DataFrame().
Caught(e) == [df |-> EmptyDataFrame, error |-> e, escaped |-> FALSE]

load_data(in) ==
    IF Raised(in) # "none" THEN Caught(Raised(in))
    ELSE [df |-> WithColumn(read_csv(in.file), "REGION",
                            [i \in 1..Len(in.file.lines) |->
                               MapRegion(read_csv(in.file).rows[i].v["STATE"])]),
          error |-> "none", escaped |-> FALSE]

\* What one fetch may meet.
FetchInputs ==
    {[fail |-> "none", file |-> f] : f \in Files \cup {NoStateFile}}
    \cup {[fail |-> x, file |-> NoStateFile] : x \in {"fetch", "zip", "parse"}}

\* The cache entry shared by reference with the caller: what the caller
\* writes into the table stays in the cache.
CacheSharedObject(c, d) == [c EXCEPT !.df = d]

\* st.cache_data hands every caller its own copy of the cached value, so
\* the entry is what it was whatever the run did to its copy d.
CacheAfterRun(c, d) == c

\* ----------------------------------------------------------------- filters

isin(c, S) == c.k = "str" /\ c.s \in S

RECURSIVE Masked(_, _)
\* The rows whose mask entry is true, in order.
Masked(rows, mask) ==
    IF rows = <<>> THEN <<>>
    ELSE (IF Head(mask) THEN <<Head(rows)>> ELSE <<>>) \o Masked(Tail(rows), Tail(mask))

\* d[mask]: boolean indexing; the rows kept keep their index labels.
Filter(d, mask) == [d EXCEPT !.rows = Masked(d.rows, mask)]

\* Series.isin(S) of column col as a mask.
IsinMask(d, col, S) == [i \in 1..Len(d.rows) |-> isin(d.rows[i].v[col], S)]

\* df['REGION'].dropna().unique()
regions(d) == {r.v["REGION"].s : r \in {x \in Range(d.rows) : ~IsNa(x.v["REGION"])}}

\* State options taken from the whole dataset, whatever the regions chosen.
StateOptionsUnfiltered(d, sel_region) ==
    {r.v["STATE"].s : r \in {x \in Range(d.rows) : x.v["STATE"].k = "str"}}

\* df[df['REGION'].isin(selected_region)]['STATE'].unique()
StateOptions(d, sel_region) ==
    {r.v["STATE"].s : r \in {x \in Range(d.rows) : isin(x.v["REGION"], sel_region)}}

default_states(states) == states \ {"Alaska"}

\* df[df['STATE'].isin(selected_state)]['COUNTY'].unique() if selected_state else []
CountyOptions(d, sel_state) ==
    IF sel_state = {} THEN {}
    ELSE {r.v["COUNTY"].s : r \in {x \in Range(d.rows) : isin(x.v["STATE"], sel_state)}}

\* The region set in effect after the quick-view buttons; b is the button
\* pressed, "none" when the run was started by something else.
EffectiveRegion(sel_region, b) ==
    IF b = "Large Metro Counties" THEN {"West", "South"}
    ELSE IF b = "High Risk States" THEN {"South", "Northeast"}
    ELSE sel_region

\* The state set in effect after the quick-view buttons.
EffectiveState(sel_state, b) ==
    IF b = "Large Metro Counties"
    THEN {"California", "Texas", "Florida", "New York"}
    ELSE sel_state

\* A region filter that also lets rows with an unset region through.
FilterRegionOrUnset(d, sel_region) ==
    Filter(d, [i \in 1..Len(d.rows) |->
                 isin(d.rows[i].v["REGION"], sel_region) \/ IsNa(d.rows[i].v["REGION"])])

\* df[df['REGION'].isin(selected_region)]
FilterRegion(d, sel_region) == Filter(d, IsinMask(d, "REGION", sel_region))

\* Lines 78-82: region filter, then state and county filters when non-empty.
FilteredDf(d, sel_region, sel_state, sel_county) ==
    LET a == FilterRegion(d, sel_region)
        b == IF sel_state # {} THEN Filter(a, IsinMask(a, "STATE", sel_state)) ELSE a
    IN IF sel_county # {} THEN Filter(b, IsinMask(b, "COUNTY", sel_county)) ELSE b

\* ------------------------------------------------------------- aggregation

GroupOptions == {"State", "Region", "Population Group"}

group_col(option) ==
    IF option = "State" THEN "STATE"
    ELSE IF option = "Region" THEN "REGION"
    ELSE "POP_GROUP"

SmallPopulation == 50000
LargePopulation == 500000

\* np.select(conditions, choices, default='Unknown') on one POPULATION cell;
\* every comparison with a missing population is false.
PopGroup(pop) ==
    IF pop.k # "num" THEN Str("Unknown")
    ELSE IF pop.n < SmallPopulation THEN Str("Small")
    ELSE IF pop.n < LargePopulation THEN Str("Medium")
    ELSE Str("Large")

\* target[name] = source[name]: pandas aligns on the index labels; a label
\* of target that source does not have gets NaN.
AlignColumn(target, source, name) ==
    WithColumn(target, name,
               [i \in 1..Len(target.rows) |->
                  IF \E x \in Range(source.rows) : x.idx = target.rows[i].idx
                  THEN (CHOOSE x \in Range(source.rows) :
                            x.idx = target.rows[i].idx).v[name]
                  ELSE NaN])

\* Every group key the three group-by columns can hold, in the order Python
\* sorts strings; groupby puts its groups in this order.
KeyOrder ==
    <<"Alabama", "Alaska", "Arizona", "Arkansas", "California", "Colorado",
      "Connecticut", "Delaware", "District of Columbia", "Florida", "Georgia",
      "Hawaii", "Idaho", "Illinois", "Indiana", "Iowa", "Kansas", "Kentucky",
      "Large", "Louisiana", "Maine", "Maryland", "Massachusetts", "Medium",
      "Michigan", "Midwest", "Minnesota", "Mississippi", "Missouri", "Montana",
      "Nebraska", "Nevada", "New Hampshire", "New Jersey", "New Mexico",
      "New York", "North Carolina", "North Dakota", "Northeast", "Ohio",
      "Oklahoma", "Oregon", "Pennsylvania", "Rhode Island", "Small", "South",
      "South Carolina", "South Dakota", "Tennessee", "Texas", "Unknown", "Utah",
      "Vermont", "Virginia", "Washington", "West", "West Virginia", "Wisconsin",
      "Wyoming">>

RECURSIVE GCD(_, _)
GCD(a, b) == IF b = 0 THEN a ELSE GCD(b, a % b)

\* A mean as a fraction in lowest terms; the mean of no value is NaN.
MeanNaN == [nan |-> TRUE, num |-> 0, den |-> 1]
Frac(total, count) ==
    [nan |-> FALSE, num |-> total \div GCD(total, count), den |-> count \div GCD(total, count)]

RECURSIVE SumScores(_)
SumScores(rows) ==
    IF rows = <<>> THEN 0 ELSE Head(rows).v["RISK_SCORE"].n + SumScores(Tail(rows))

\* The group's total risk score reported in place of its mean.
SeriesSum(rows) ==
    LET present == SelectSeq(rows, LAMBDA r : ~IsNa(r.v["RISK_SCORE"]))
    IN IF present = <<>> THEN MeanNaN ELSE Frac(SumScores(present), 1)

\* Series.mean(): the mean of the values that are present (skipna).
SeriesMean(rows) ==
    LET present == SelectSeq(rows, LAMBDA r : ~IsNa(r.v["RISK_SCORE"]))
    IN IF present = <<>> THEN MeanNaN ELSE Frac(SumScores(present), Len(present))

\* groupby(col)['RISK_SCORE'].mean(): one entry per key that occurs in col
\* (rows whose key is missing are dropped), in key order.
GroupMeans(d, col) ==
    LET present == {r.v[col].s : r \in {x \in Range(d.rows) : x.v[col].k = "str"}}
        keys == SelectSeq(KeyOrder, LAMBDA g : g \in present)
    IN [i \in 1..Len(keys) |->
          [key |-> keys[i],
           mean |-> SeriesMean(SelectSeq(d.rows, LAMBDA r : isin(r.v[col], {keys[i]})))]]

\* a sorts strictly before b under sort_values(ascending=False): larger
\* first, NaN last.
SortsBefore(a, b) == ~a.nan /\ (b.nan \/ a.num * b.den > b.num * a.den)

RECURSIVE SortDescending(_)
\* sort_values(ascending=False); entries with equal means keep their order.
SortDescending(s) ==
    IF s = <<>> THEN <<>>
    ELSE LET rest == SortDescending(Tail(s))
             e == Head(s)
             \* e goes before the first entry it does not sort after
             ahead == {i \in 1..Len(rest) : SortsBefore(rest[i].mean, e.mean)}
             k == Cardinality(ahead)
         IN SubSeq(rest, 1, k) \o <<e>> \o SubSeq(rest, k + 1, Len(rest))

\* Line 131.
AvgRisk(d, col) == SortDescending(GroupMeans(d, col))

\* ---------------------------------------------------------------- scatter

OutlierPopulation == 1000000

\* Lines 138-140.
ScatterDf(d, hide) ==
    IF hide
    THEN Filter(d, [i \in 1..Len(d.rows) |->
                      d.rows[i].v["POPULATION"].k = "num"
                      /\ d.rows[i].v["POPULATION"].n < OutlierPopulation])
    ELSE d

\* -------------------------------------------------------------- clustering

cluster_cols == <<"RISK_SCORE", "SOVI_SCORE", "RESL_SCORE", "EAL_VALT">>

NClusters == 3

\* d[cols].dropna(): the columns cols of the rows that miss none of them;
\* the rows keep their index labels.
DropNa(d, cols) ==
    LET kept == SelectSeq(d.rows, LAMBDA r : \A c \in Range(cols) : ~IsNa(r.v[c]))
    IN [cols |-> cols,
        rows |-> [i \in 1..Len(kept) |->
                    [idx |-> kept[i].idx, v |-> [c \in Range(cols) |-> kept[i].v[c]]]]]

\* cluster_df['Cluster'] = kmeans.fit_predict(X_scaled): the i-th label goes
\* to the i-th row of cluster_df.
WithLabels(cd, lab) ==
    [cols |-> Append(cd.cols, "Cluster"),
     rows |-> [i \in 1..Len(cd.rows) |->
                 [idx |-> cd.rows[i].idx,
                  v |-> [c \in DOMAIN cd.rows[i].v \cup {"Cluster"} |->
                           IF c = "Cluster" THEN Num(lab[i]) ELSE cd.rows[i].v[c]]]]]

\* reset_index(drop=True): the labels become the positions 0..n-1.
reset_index(d) ==
    [d EXCEPT !.rows = [i \in 1..Len(d.rows) |-> [d.rows[i] EXCEPT !.idx = i - 1]]]

\* ------------------------------------------------------------------ export

\* An export that writes a missing value as 0.
FormatCellZeroFill(c) ==
    IF c.k = "nan" THEN "0" ELSE IF c.k = "num" THEN ToString(c.n) ELSE c.s

\* DataFrame.to_csv on one cell: a missing value is the empty field, a
\* number its decimal numeral, a string itself.
FormatCell(c) ==
    IF c.k = "nan" THEN "" ELSE IF c.k = "num" THEN ToString(c.n) ELSE c.s

\* to_csv(index=False): the header and one line per row; no index column.
to_csv(d) ==
    [header |-> d.cols,
     lines |-> [i \in 1..Len(d.rows) |->
                  [j \in 1..Len(d.cols) |-> FormatCell(d.rows[i].v[d.cols[j]])]]]

NoCsv == [header |-> <<>>, lines |-> <<>>]

\* -------------------------------------------------------------- one run

\* The option set of a multiselect that has not been rendered yet.
Unrendered == {"<unrendered>"}

Dashboard ==
    {"filters", "quick_views", "kpis", "map", "group_radio", "bar",
     "outlier_checkbox", "scatter", "regression_checkbox", "cluster_checkbox"}

\* Lines 57-62: the state options and the state multiselect's value.  A
\* multiselect whose options differ from those of the previous run is a new
\* widget and starts from its default.
SidebarStates(prev_states, w, opts) ==
    [states |-> opts,
     state_sel |-> IF opts = prev_states THEN w.state ELSE default_states(opts)]

\* Lines 65-66: the county options and the county multiselect's value.
SidebarCounties(prev_counties, w, st, opts) ==
    [states |-> st.states, state_sel |-> st.state_sel, counties |-> opts,
     county_sel |-> IF opts = prev_counties THEN w.county ELSE {}]

\* Lines 56-66.
Sidebar(d, prev_states, prev_counties, w) ==
    SidebarCounties(prev_counties, w,
                    SidebarStates(prev_states, w, StateOptions(d, w.region)),
                    CountyOptions(d, SidebarStates(prev_states, w,
                                                   StateOptions(d, w.region)).state_sel))

\* Lines 121-128: the POP_GROUP column written into df, then copied into
\* filtered_df by index label.
WritePopGroup(d1, f0) ==
    [df |-> d1, filtered_df |-> AlignColumn(f0, d1, "POP_GROUP")]

\* Lines 114-129: df and filtered_df after the group-by choice.
GroupBy(d, f0, option) ==
    IF option = "Population Group"
    THEN WritePopGroup(WithColumn(d, "POP_GROUP",
                                  [i \in 1..Len(d.rows) |->
                                     PopGroup(d.rows[i].v["POPULATION"])]), f0)
    ELSE [df |-> d, filtered_df |-> f0]

\* Lines 54 and 216-217, and a load_data that let its exception through:
\* nothing of the dashboard is rendered.
ErrorScreen(c, w) ==
    [screen |-> IF c.escaped THEN "exception" ELSE "error",
     rendered |-> IF c.escaped THEN {}
                  ELSE (IF c.error # "none" THEN {"load_error"} ELSE {})
                       \cup {"dataset_error"},
     df |-> c.df, states |-> Unrendered, state_sel |-> w.state,
     counties |-> Unrendered, county_sel |-> w.county,
     selected_region |-> {}, selected_state |-> {},
     filtered_df |-> EmptyDataFrame, avg_risk |-> <<>>,
     scatter_df |-> EmptyDataFrame, cluster_df |-> EmptyDataFrame,
     labelled |-> 0, csv |-> NoCsv]

\* Lines 88-182: the run up to the call of KMeans.  g is df and filtered_df
\* after the group-by section; cluster_df exists only with the clustering
\* checkbox ticked.
Charts(sb, w, b, g) ==
    [screen |-> "dashboard",
     rendered |-> Dashboard,
     df |-> g.df, states |-> sb.states, state_sel |-> sb.state_sel,
     counties |-> sb.counties, county_sel |-> sb.county_sel,
     selected_region |-> EffectiveRegion(w.region, b),
     selected_state |-> EffectiveState(sb.state_sel, b),
     filtered_df |-> g.filtered_df,
     avg_risk |-> AvgRisk(g.filtered_df, group_col(w.group_option)),
     scatter_df |-> ScatterDf(g.filtered_df, w.hide_outliers),
     cluster_df |-> IF w.run_clustering THEN DropNa(g.filtered_df, cluster_cols)
                    ELSE EmptyDataFrame,
     labelled |-> 0, csv |-> NoCsv]

\* Lines 68-182, given the sidebar's options and values.
Body(d, sb, w, b) ==
    Charts(sb, w, b,
           GroupBy(d, FilteredDf(d, EffectiveRegion(w.region, b),
                                 EffectiveState(sb.state_sel, b), sb.county_sel),
                   w.group_option))

\* Lines 52-182: the script up to the call of KMeans.  c is the cache entry
\* of load_data, prev_states and prev_counties the options the state and
\* county multiselects had in the previous run, w the widget values of the
\* session, b the button pressed.
BeforeKMeans(c, prev_states, prev_counties, w, b) ==
    IF c.escaped \/ IsEmpty(c.df)
    THEN ErrorScreen(c, w)
    ELSE Body(c.df, Sidebar(c.df, prev_states, prev_counties, w), w, b)

\* Lines 184-189: whether KMeans is called, and on how many rows.
Fits(r) == r.screen = "dashboard" /\ Len(r.cluster_df.rows) > 0

\* The label vectors fit_predict may return: one label in 0..NClusters-1
\* per row it is given.  KMeans(n_clusters=3) raises ValueError when it is
\* given fewer rows than clusters.
Labelings(r) ==
    IF Fits(r) /\ Len(r.cluster_df.rows) >= NClusters
    THEN [1..Len(r.cluster_df.rows) -> 0..(NClusters - 1)]
    ELSE {<<>>}

\* Lines 191-192: the index of filtered_df is reset, and the Cluster column
\* of cluster_df is copied into filtered_df by index label.
AssignClusters(f1, cd) == AlignColumn(reset_index(f1), cd, "Cluster")

\* Lines 189-211 of a run in which KMeans returned lab.
Clustered(r, cd, lab) ==
    [r EXCEPT !.rendered = @ \cup {"clusters", "download"},
              !.cluster_df = cd,
              !.labelled = Len(cd.rows),
              !.filtered_df = AssignClusters(r.filtered_df, cd),
              !.csv = to_csv(AssignClusters(r.filtered_df, cd))]

\* Lines 184-214: the rest of the run.  An exception nothing catches ends
\* the run where it is raised, before the download button.
AfterKMeans(r, lab) ==
    IF r.screen # "dashboard" THEN r
    ELSE IF ~Fits(r)
         THEN [r EXCEPT !.rendered = @ \cup {"download"}, !.csv = to_csv(r.filtered_df)]
    ELSE IF Len(r.cluster_df.rows) < NClusters
         THEN [r EXCEPT !.screen = "exception"]
    ELSE Clustered(r, WithLabels(r.cluster_df, lab), lab)

\* --------------------------------------------------------------- the state

VARIABLES
    cache,            \* the entry st.cache_data holds for load_data()
    fetch_in,         \* what the one fetch met
    loaded,           \* what load_data() returned to the last run
    region_sel, state_sel, county_sel,     \* the multiselects' values
    group_option, hide_outliers, run_clustering,
    button,           \* the quick-view button pressed for the last run
    run               \* what the last run of the script left behind

vars ==
    <<cache, fetch_in, loaded, region_sel, state_sel, county_sel,
      group_option, hide_outliers, run_clustering, button, run>>

\* The script's names at the end of the last run.
screen == run.screen
rendered == run.rendered
df == run.df
states == run.states
counties == run.counties
selected_region == run.selected_region
selected_state == run.selected_state
filtered_df == run.filtered_df
avg_risk == run.avg_risk
scatter_df == run.scatter_df
cluster_df == run.cluster_df
csv == run.csv

\* The widget values of the session as one record.
Widgets ==
    [region |-> region_sel, state |-> state_sel, county |-> county_sel,
     group_option |-> group_option, hide_outliers |-> hide_outliers,
     run_clustering |-> run_clustering]

\* The widget values of a session that has rendered nothing yet.
Defaults(c) ==
    [region |-> regions(c.df), state |-> {}, county |-> {},
     group_option |-> "State", hide_outliers |-> FALSE,
     run_clustering |-> FALSE]

\* The first run of the first session: load_data() runs and its result is
\* cached; every widget has its default.
Init ==
    \E in \in FetchInputs :
        /\ fetch_in = in
        /\ loaded = load_data(in).df
        /\ run = AfterKMeans(BeforeKMeans(load_data(in), Unrendered, Unrendered,
                                           Defaults(load_data(in)), "none"), <<>>)
        /\ cache = CacheAfterRun(load_data(in), run.df)
        /\ region_sel = regions(loaded)
        /\ state_sel = run.state_sel
        /\ county_sel = run.county_sel
        /\ group_option = "State"
        /\ hide_outliers = FALSE
        /\ run_clustering = FALSE
        /\ button = "none"

\* The script run that follows an interaction: load_data() answers from the
\* cache, the script runs with widget values w and button b.
Run(prev_states, prev_counties, w, b) ==
    \E r \in {BeforeKMeans(cache, prev_states, prev_counties, w, b)} :
      \E lab \in Labelings(r) :
        /\ run' = AfterKMeans(r, lab)
        /\ cache' = CacheAfterRun(cache, run'.df)
        /\ fetch_in' = fetch_in
        /\ loaded' = cache.df
        /\ region_sel' = w.region
        /\ state_sel' = run'.state_sel
        /\ county_sel' = run'.county_sel
        /\ group_option' = w.group_option
        /\ hide_outliers' = w.hide_outliers
        /\ run_clustering' = w.run_clustering
        /\ button' = b

\* ---------------------------------------------------------- interactions

SelectRegion ==
    /\ "filters" \in rendered
    /\ \E x \in regions(cache.df) :
        LET S == IF x \in region_sel THEN region_sel \ {x} ELSE region_sel \cup {x} IN
        /\ Run(states, counties, [Widgets EXCEPT !.region = S], "none")

SelectState ==
    /\ "filters" \in rendered
    /\ \E x \in states :
        LET S == IF x \in state_sel THEN state_sel \ {x} ELSE state_sel \cup {x} IN
        /\ Run(states, counties, [Widgets EXCEPT !.state = S], "none")

SelectCounty ==
    /\ "filters" \in rendered
    /\ \E x \in counties :
        LET S == IF x \in county_sel THEN county_sel \ {x} ELSE county_sel \cup {x} IN
        /\ Run(states, counties, [Widgets EXCEPT !.county = S], "none")

PressHighRiskStates ==
    /\ "quick_views" \in rendered
    /\ Run(states, counties, Widgets, "High Risk States")

PressLargeMetroCounties ==
    /\ "quick_views" \in rendered
    /\ Run(states, counties, Widgets, "Large Metro Counties")

SetGroupBy ==
    /\ "group_radio" \in rendered
    /\ \E g \in GroupOptions \ {group_option} :
        Run(states, counties, [Widgets EXCEPT !.group_option = g], "none")

ToggleHideOutliers ==
    /\ "outlier_checkbox" \in rendered
    /\ Run(states, counties, [Widgets EXCEPT !.hide_outliers = ~hide_outliers], "none")

ToggleClustering ==
    /\ "cluster_checkbox" \in rendered
    /\ Run(states, counties, [Widgets EXCEPT !.run_clustering = ~run_clustering], "none")

\* A new browser session: no widget has a value yet, the cache is the
\* process's and is kept.
NewSession ==
    Run(Unrendered, Unrendered, Defaults(cache), "none")

Next ==
    \/ SelectRegion
    \/ SelectState
    \/ SelectCounty
    \/ PressHighRiskStates
    \/ PressLargeMetroCounties
    \/ SetGroupBy
    \/ ToggleHideOutliers
    \/ ToggleClustering
    \/ NewSession

Spec == Init /\ [][Next]_vars

\* ------------------------------------------------------------ properties

\* The county records of a table, in order: the columns of the fetched file
\* and the derived region, without the index labels.
Records(d) ==
    [i \in 1..Len(d.rows) |-> [c \in Range(Header) \cup {"REGION"} |-> d.rows[i].v[c]]]

\* The table the one fetch produced.
OriginalTable == load_data(fetch_in).df

RECURSIVE TotalRisk(_, _)
\* The sum of the risk scores of the rows at the positions I.
TotalRisk(rows, I) ==
    IF I = {} THEN 0
    ELSE LET i == CHOOSE x \in I : TRUE
         IN rows[i].v["RISK_SCORE"].n + TotalRisk(rows, I \ {i})

\* C1: every row of the filtered table has a region that is a member of the
\* region set in effect for the run (the multiselect's value, or the set a
\* quick-view button put in its place); no row with an unset region is in it.
C1_FilteredRegionsSelected ==
    \A r \in Range(filtered_df.rows) : isin(r.v["REGION"], selected_region)

\* C1 witness: a quick view replaced the region set, the dataset holds a row
\* with an unset region and a row of a region outside the set in effect, and
\* the filtered table is not empty.
C1_Witness ==
    /\ button = "Large Metro Counties"
    /\ Len(filtered_df.rows) > 0
    /\ \E r \in Range(loaded.rows) : IsNa(r.v["REGION"])
    /\ \E r \in Range(loaded.rows) :
           ~IsNa(r.v["REGION"]) /\ ~isin(r.v["REGION"], selected_region)

\* C2: for every row of the loaded dataset the region is set iff the state
\* is a key of region_map, and then it is the region the table gives.
C2_RegionIffStateInLookup ==
    \A r \in Range(loaded.rows) :
        /\ ~IsNa(r.v["REGION"]) <=>
               (r.v["STATE"].k = "str" /\ r.v["STATE"].s \in DOMAIN region_map)
        /\ ~IsNa(r.v["REGION"]) => r.v["REGION"] = Str(region_map[r.v["STATE"].s])

\* C2 witness: a dataset with a row whose state is outside the table (its
\* region unset) and a row whose state is in it.
C2_Witness ==
    /\ \E r \in Range(loaded.rows) :
           r.v["STATE"] = Str("Puerto Rico") /\ IsNa(r.v["REGION"])
    /\ \E r \in Range(loaded.rows) :
           r.v["STATE"] = Str("New York") /\ r.v["REGION"] = Str("Northeast")

\* C3: for the group-by choice in force, avg_risk has exactly one entry for
\* every group value that has a row in the filtered table and no other
\* entry, and each entry is the arithmetic mean of the risk scores present
\* in its group's rows (NaN when the group has no risk score at all).
C3_GroupMeans ==
    screen # "error" =>
        LET col == group_col(group_option)
            rows == filtered_df.rows
            keys == {rows[i].v[col].s : i \in {j \in DOMAIN rows : rows[j].v[col].k = "str"}}
            Scored(g) == {i \in DOMAIN rows :
                            rows[i].v[col] = Str(g) /\ ~IsNa(rows[i].v["RISK_SCORE"])}
        IN /\ {avg_risk[i].key : i \in DOMAIN avg_risk} = keys
           /\ Len(avg_risk) = Cardinality(keys)
           /\ \A i \in DOMAIN avg_risk :
                  IF Scored(avg_risk[i].key) = {}
                  THEN avg_risk[i].mean.nan
                  ELSE /\ ~avg_risk[i].mean.nan
                       /\ avg_risk[i].mean.num * Cardinality(Scored(avg_risk[i].key))
                              = avg_risk[i].mean.den * TotalRisk(rows, Scored(avg_risk[i].key))

\* C3 witness: the Population Group grouping with a group of several rows
\* whose mean is no whole number and a group without any risk score.
C3_Witness ==
    /\ group_option = "Population Group"
    /\ \E i \in DOMAIN avg_risk : ~avg_risk[i].mean.nan /\ avg_risk[i].mean.den > 1
    /\ \E i \in DOMAIN avg_risk : avg_risk[i].mean.nan

\* C4: parsing the downloaded CSV gives the columns and, row for row, the
\* values of the filtered table the run ended with.
C4_CsvRoundTrip ==
    "download" \in rendered =>
        /\ read_csv(csv).cols = filtered_df.cols
        /\ Len(read_csv(csv).rows) = Len(filtered_df.rows)
        /\ \A i \in DOMAIN filtered_df.rows :
               read_csv(csv).rows[i].v = filtered_df.rows[i].v

\* C4 witness: a download of a table with the POP_GROUP and Cluster columns,
\* at least three rows, a missing value and a row that was given no label.
C4_Witness ==
    /\ "download" \in rendered
    /\ "POP_GROUP" \in Range(filtered_df.cols)
    /\ "Cluster" \in Range(filtered_df.cols)
    /\ Len(filtered_df.rows) >= NClusters
    /\ \E r \in Range(filtered_df.rows) : IsNa(r.v["POPULATION"])
    /\ \E r \in Range(filtered_df.rows) : IsNa(r.v["Cluster"])
    /\ \E r \in Range(filtered_df.rows) : ~IsNa(r.v["Cluster"])

\* C5: when the request, the archive, the CSV parse or the region derivation
\* fails, load_data catches the exception, shows the error and returns an
\* empty table, and the run shows the error screen and nothing else.
C5_LoadFailureErrorScreen ==
    Raised(fetch_in) # "none" =>
        /\ ~cache.escaped
        /\ cache.error = Raised(fetch_in)
        /\ loaded = EmptyDataFrame
        /\ screen = "error"
        /\ rendered = {"load_error", "dataset_error"}
        /\ csv = NoCsv

\* C5 witness: the region derivation failed on a table without a STATE
\* column, and the run ended on the error screen.
C5_Witness ==
    /\ fetch_in.fail = "none"
    /\ Raised(fetch_in) = "KeyError"
    /\ screen = "error"

\* C6: the table load_data returns to a run is the table the original fetch
\* produced, whatever earlier runs wrote into their tables.
C6_DatasetNeverMutated == loaded = OriginalTable

\* C6 witness: a run started by a quick-view button while the Population
\* Group grouping and the clustering checkbox were already on: the run
\* before it wrote POP_GROUP into its df, and so did this one.
C6_Witness ==
    /\ button = "High Risk States"
    /\ group_option = "Population Group"
    /\ run_clustering
    /\ "POP_GROUP" \in Range(df.cols)
    /\ "POP_GROUP" \notin Range(loaded.cols)
    /\ Len(filtered_df.rows) > 0

\* C7: the state options are exactly the states of the dataset rows whose
\* region is in the region multiselect's value, the county options exactly
\* the counties of the rows whose state is in the state multiselect's value
\* (none when no state is selected); the selections are among the options,
\* so every state on offer lies in a selected region and every county on
\* offer in a selected state.
C7_FilterCascade ==
    "filters" \in rendered =>
        /\ states = {r.v["STATE"].s :
                        r \in {x \in Range(loaded.rows) : isin(x.v["REGION"], region_sel)}}
        /\ counties = IF state_sel = {} THEN {}
                      ELSE {r.v["COUNTY"].s :
                              r \in {x \in Range(loaded.rows) : isin(x.v["STATE"], state_sel)}}
        /\ state_sel \subseteq states
        /\ county_sel \subseteq counties
        /\ \A st \in states : st \in DOMAIN region_map /\ region_map[st] \in region_sel
        /\ \A co \in counties :
               \E r \in Range(loaded.rows) :
                   r.v["COUNTY"] = Str(co) /\ isin(r.v["STATE"], state_sel)

\* C7 witness: some but not all regions, some but not all offered states and
\* some but not all offered counties are selected.
C7_Witness ==
    /\ "filters" \in rendered
    /\ region_sel # {} /\ region_sel # regions(loaded)
    /\ state_sel # {} /\ state_sel # states
    /\ county_sel # {} /\ county_sel # counties

\* C8: with the outlier checkbox ticked the scatterplot data is the filtered
\* rows minus those with a population above 1,000,000 (a population of
\* exactly 1,000,000 or a missing one stays); unticked it is the filtered rows.
C8_ScatterHidesOnlyAboveOneMillion ==
    screen # "error" =>
        Records(scatter_df) =
            IF hide_outliers
            THEN SelectSeq(Records(filtered_df),
                           LAMBDA v : ~(v["POPULATION"].k = "num"
                                        /\ v["POPULATION"].n > OutlierPopulation))
            ELSE Records(filtered_df)

\* C9: after clustering, the Cluster value of each row of the filtered
\* table is the label computed for that same county record, and a row has
\* no label only if one of its clustering inputs is missing.
C9_ClusterLabelsFollowRecords ==
    "clusters" \in rendered =>
        \A r \in Range(filtered_df.rows) :
            LET orig == CHOOSE x \in Range(loaded.rows) :
                            x.v["STATE"] = r.v["STATE"] /\ x.v["COUNTY"] = r.v["COUNTY"]
                own == {y \in Range(cluster_df.rows) : y.idx = orig.idx}
            IN /\ \A y \in own : r.v["Cluster"] = y.v["Cluster"]
               /\ own = {} => IsNa(r.v["Cluster"])
               /\ IsNa(r.v["Cluster"]) => \E c \in Range(cluster_cols) : IsNa(r.v[c])

\* C10: "Large Metro Counties" with no county selected gives exactly the
\* dataset rows of California, Texas, Florida and New York; "High Risk
\* States" gives only rows of the South and Northeast regions.
C10_QuickViews ==
    /\ (button = "Large Metro Counties" /\ county_sel = {}) =>
           Records(filtered_df) =
               SelectSeq(Records(loaded),
                         LAMBDA v : isin(v["STATE"],
                                         {"California", "Texas", "Florida", "New York"}))
    /\ button = "High Risk States" =>
           \A r \in Range(filtered_df.rows) : isin(r.v["REGION"], {"South", "Northeast"})

====
